---- MODULE Spec2Model ----
(***************************************************************************)
(* Model of the vector store handler (scripts/db_handler.py), the search   *)
(* service (scripts/semantic_search.py) and the CSV migration              *)
(* (scripts/migrate_to_vectordb.py) of youtube-semantic-search.            *)
(*                                                                         *)
(* The persisted ChromaDB collection is the state.  Every script run is    *)
(* one call on a VideoVectorDB handle: an operation action takes the       *)
(* handle from "idle" to "done", leaving its arguments in `call`, what it  *)
(* returned or raised in `ret`, and the collection as it was when the call *)
(* started in `before`; Return hands control back to the caller.           *)
(***************************************************************************)
EXTENDS Integers, Sequences, FiniteSets, TLC

\* ------------------------------------------------------------------ bounds

\* Longest id list handed to insert_videos in one call.
MaxBatch == 3
\* Largest top_k asked of a search.
MaxTopK == 3
\* Most rows of the CSV a migration reads.
MaxRows == 2
MaxCsvRows == 2

\* ------------------------------------------------------- values and inputs

Ids == {"a", "b", "c"}

\* Python's str ordering of the ids.
IdRank(id) == CASE id = "a" -> 1 [] id = "b" -> 2 [] OTHER -> 3

\* Python's None.
None == [none |-> TRUE]

\* The records written by the callers: transcript, embedding, metadata.
\* The last one carries no view_count key.
Pool ==
  << [transcript |-> "t1", embedding |-> <<1, 0>>,
      metadata |-> [title |-> "A", view_count |-> 10]],
     [transcript |-> "t2", embedding |-> <<0, 1>>,
      metadata |-> [title |-> "B", view_count |-> 5]],
     [transcript |-> "t3", embedding |-> <<9, 1>>,
      metadata |-> [title |-> "C", view_count |-> 20]],
     [transcript |-> "t4", embedding |-> <<2, 0>>,
      metadata |-> [title |-> "D"]] >>

\* Position i of a batch whose first record is Pool[start].
PoolAt(start, i) == Pool[((start + i - 2) % Len(Pool)) + 1]

\* An embedding of another dimension than the pool's.
ShortEmbedding == <<1>>

IdLists(max) == UNION {[1..n -> Ids] : n \in 1..max}

Range(s) == {s[i] : i \in DOMAIN s}

Min(x, y) == IF x <= y THEN x ELSE y

\* ------------------------------------------------------------------- state

VARIABLES
  collection,   \* the persisted records: a function from the stored ids
  dimension,    \* the collection's embedding dimension, 0 until the first add
  pc,           \* "idle" or "done"
  call,         \* the call that ran last, with its arguments
  ret,          \* what that call returned or raised
  before,       \* the collection and its dimension when that call started
  space,        \* the metric the collection was created with, "none" when
                \* no collection exists under the name
  handle,       \* self.collection: "valid", or "stale" when it refers to a
                \* collection that was deleted
  config        \* config.DISTANCE_METRIC of the running process

vars == <<collection, dimension, pc, call, ret, before, space, handle, config>>

NoCall == [op |-> "none"]
NoRet == [status |-> "none"]
Empty == [id \in {} |-> None]
NoBefore == [collection |-> Empty, dimension |-> 0, space |-> "none"]

\* ----------------------------------------------------------- ChromaDB add

HasDuplicates(ids) == \E i, j \in DOMAIN ids : i # j /\ ids[i] = ids[j]

FirstIndex(ids, id) == CHOOSE i \in DOMAIN ids : ids[i] = id

\* An add that raises when an id of the batch is already stored.
collection_add_rejecting_stored(coll, dim, ids, documents, embeddings, metadatas) ==
  IF HasDuplicates(ids) \/ Range(ids) \cap DOMAIN coll # {}
  THEN [status |-> "DuplicateIDError", collection |-> coll, dimension |-> dim]
  ELSE IF dim # 0 /\ (\E i \in DOMAIN ids : Len(embeddings[i]) # dim)
  THEN [status |-> "InvalidDimensionException", collection |-> coll, dimension |-> dim]
  ELSE [status |-> "ok",
        collection |->
          [id \in DOMAIN coll \cup Range(ids) |->
             IF id \in DOMAIN coll THEN coll[id]
             ELSE [transcript |-> documents[FirstIndex(ids, id)],
                   embedding |-> embeddings[FirstIndex(ids, id)],
                   metadata |-> metadatas[FirstIndex(ids, id)]]],
        dimension |-> IF dim = 0 THEN Len(embeddings[1]) ELSE dim]

\* self.collection.add(ids, documents, embeddings, metadatas): the ids are
\* validated to be unique, every embedding is validated against the
\* collection's dimension (the first add fixes it), and then the records
\* whose id is not stored yet are added; a record whose id is already stored
\* is left as it is.
collection_add(coll, dim, ids, documents, embeddings, metadatas) ==
  IF HasDuplicates(ids)
  THEN [status |-> "DuplicateIDError", collection |-> coll, dimension |-> dim]
  ELSE IF dim # 0 /\ (\E i \in DOMAIN ids : Len(embeddings[i]) # dim)
  THEN [status |-> "InvalidDimensionException", collection |-> coll, dimension |-> dim]
  ELSE [status |-> "ok",
        collection |->
          [id \in DOMAIN coll \cup Range(ids) |->
             IF id \in DOMAIN coll THEN coll[id]
             ELSE [transcript |-> documents[FirstIndex(ids, id)],
                   embedding |-> embeddings[FirstIndex(ids, id)],
                   metadata |-> metadatas[FirstIndex(ids, id)]]],
        dimension |-> IF dim = 0 THEN Len(embeddings[1]) ELSE dim]

\* A variant of insert_videos that leaves out the last record of the batch.
insert_videos_drop_last(coll, dim, video_ids, transcripts, embeddings, metadata) ==
  IF Len(video_ids) = 1
  THEN [status |-> "ok", collection |-> coll, dimension |-> dim]
  ELSE collection_add(coll, dim,
                      SubSeq(video_ids, 1, Len(video_ids) - 1),
                      SubSeq(transcripts, 1, Len(video_ids) - 1),
                      SubSeq(embeddings, 1, Len(video_ids) - 1),
                      SubSeq(metadata, 1, Len(video_ids) - 1))

\* A variant of insert_videos that catches the add's exception, as the
\* handler's other methods do, and returns normally.
insert_videos_swallowing(coll, dim, video_ids, transcripts, embeddings, metadata) ==
  [status |-> "ok",
   collection |-> collection_add(coll, dim, video_ids, transcripts,
                                 embeddings, metadata).collection,
   dimension |-> collection_add(coll, dim, video_ids, transcripts,
                                embeddings, metadata).dimension]

RECURSIVE insert_videos_one_by_one_from(_, _, _, _, _, _, _)
insert_videos_one_by_one_from(coll, dim, video_ids, transcripts, embeddings, metadata, i) ==
  IF i > Len(video_ids)
  THEN [status |-> "ok", collection |-> coll, dimension |-> dim]
  ELSE LET r == collection_add(coll, dim, <<video_ids[i]>>, <<transcripts[i]>>,
                               <<embeddings[i]>>, <<metadata[i]>>)
       IN IF r.status # "ok" THEN r
          ELSE insert_videos_one_by_one_from(r.collection, r.dimension, video_ids,
                                             transcripts, embeddings, metadata, i + 1)

\* A variant of insert_videos that adds the records one call at a time.
insert_videos_one_by_one(coll, dim, video_ids, transcripts, embeddings, metadata) ==
  insert_videos_one_by_one_from(coll, dim, video_ids, transcripts, embeddings, metadata, 1)

\* VideoVectorDB.insert_videos: embeddings.tolist(), then one add of the
\* whole batch; an exception of the add reaches the caller.
insert_videos(coll, dim, video_ids, transcripts, embeddings, metadata) ==
  collection_add(coll, dim, video_ids, transcripts, embeddings, metadata)

\* -------------------------------------------------------- ChromaDB delete

\* self.collection.delete(ids=[video_id]): the records under the ids are
\* removed; an id that is not stored is skipped without an error.
collection_delete(coll, ids) ==
  [id \in DOMAIN coll \ Range(ids) |-> coll[id]]

\* A variant of delete_video that leaves the record in place.
delete_video_keeping(coll, video_id) ==
  [result |-> TRUE, collection |-> coll]

\* VideoVectorDB.delete_video: True once the delete has returned.
delete_video(coll, video_id) ==
  [result |-> TRUE, collection |-> collection_delete(coll, <<video_id>>)]

\* --------------------------------------------------------- ChromaDB query

RECURSIVE DotUpTo(_, _, _)
DotUpTo(x, y, n) == IF n = 0 THEN 0 ELSE x[n] * y[n] + DotUpTo(x, y, n - 1)

Dot(x, y) == DotUpTo(x, y, Len(x))

\* The cosine distance 1 - cos(q, e) of the collection's metric
\* (config.DISTANCE_METRIC), kept exact as the signed square of the cosine:
\* cos(q, e) = sign(num) * sqrt(|num| / den).
Distance(q, e) ==
  LET d == Dot(q, e)
  IN [num |-> IF d >= 0 THEN d * d ELSE 0 - d * d, den |-> Dot(q, q) * Dot(e, e)]

\* d1 < d2 and d1 = d2 as cosine distances.
DistLess(d1, d2) == d1.num * d2.den > d2.num * d1.den
DistEq(d1, d2) == d1.num * d2.den = d2.num * d1.den

NoFilter == [key |-> None]

\* The filter the search CLI builds: {"view_count": {"$gte": min_views}}.
MinViewsFilter(m) == [key |-> "view_count", op |-> "$gte", value |-> m]

\* where=metadata_filter: a record without the key does not match.
Matches(metadata, where) ==
  \/ where = NoFilter
  \/ /\ where.key \in DOMAIN metadata
     /\ metadata[where.key] >= where.value

Candidates(coll, where) == {id \in DOMAIN coll : Matches(coll[id].metadata, where)}

\* The orders in which the n nearest candidates can come back: nearest
\* first, equal distances in the order the index happens to hold them.
NearestOrders(coll, q, n, cands) ==
  {s \in [1..n -> cands] :
     /\ \A i, j \in 1..n : i < j =>
          /\ s[i] # s[j]
          /\ ~DistLess(Distance(q, coll[s[j]].embedding),
                       Distance(q, coll[s[i]].embedding))
     /\ \A o \in cands \ Range(s) : \A i \in 1..n :
          ~DistLess(Distance(q, coll[o].embedding),
                    Distance(q, coll[s[i]].embedding))}

\* self.collection.query(query_embeddings, n_results, where, include): the
\* possible answers.  n_results must be positive and the query must have the
\* collection's dimension; at most n_results of the matching records come
\* back, nearest first.
collection_query(coll, dim, q, n_results, where) ==
  IF n_results <= 0
  THEN {[status |-> "TypeError"]}
  ELSE IF dim # 0 /\ Len(q) # dim
  THEN {[status |-> "InvalidDimensionException"]}
  ELSE LET cands == Candidates(coll, where)
           n == Min(n_results, Cardinality(cands))
       IN {[status |-> "ok",
            ids |-> s,
            distances |-> [i \in 1..n |-> Distance(q, coll[s[i]].embedding)],
            metadatas |-> [i \in 1..n |-> coll[s[i]].metadata]] :
           s \in NearestOrders(coll, q, n, cands)}

\* A variant of search_videos that does not hand the filter to the query.
search_videos_unfiltered(coll, dim, query_embedding, top_k, metadata_filter) ==
  collection_query(coll, dim, query_embedding, top_k, NoFilter)

\* A variant of search_videos that asks the query for one result too few.
search_videos_short(coll, dim, query_embedding, top_k, metadata_filter) ==
  collection_query(coll, dim, query_embedding, top_k - 1, metadata_filter)

\* A variant of search_videos that answers a non-positive top_k with an
\* empty result instead of raising.
search_videos_lenient(coll, dim, query_embedding, top_k, metadata_filter) ==
  IF top_k <= 0
  THEN {[status |-> "ok", ids |-> <<>>, distances |-> <<>>, metadatas |-> <<>>]}
  ELSE collection_query(coll, dim, query_embedding, top_k, metadata_filter)

\* VideoVectorDB.search_videos: the query's first result row, as
\* (video_ids, distances, metadatas); an exception of the query reaches the
\* caller.
search_videos(coll, dim, query_embedding, top_k, metadata_filter) ==
  collection_query(coll, dim, query_embedding, top_k, metadata_filter)

\* --------------------------------------------------------- point lookups

\* get_video_by_id: the stored record under its id, or None.
get_video_by_id(coll, video_id) ==
  IF video_id \in DOMAIN coll
  THEN [id |-> video_id,
        transcript |-> coll[video_id].transcript,
        embedding |-> coll[video_id].embedding,
        metadata |-> coll[video_id].metadata]
  ELSE None

\* config.py: COLLECTION_NAME, VECTOR_DB_PATH, DISTANCE_METRIC.
COLLECTION_NAME == "youtube_videos"
VECTOR_DB_PATH == "data/vectordb"
DISTANCE_METRIC == "cosine"

\* Statistics that count the distinct transcripts instead of the ids.
get_collection_stats_by_transcript(coll) ==
  [total_videos |-> Cardinality({coll[id].transcript : id \in DOMAIN coll}),
   collection_name |-> COLLECTION_NAME,
   persist_directory |-> VECTOR_DB_PATH,
   distance_metric |-> config]

\* get_collection_stats: the collection's count and the configured names,
\* the metric being the DISTANCE_METRIC the running process imported.
get_collection_stats(coll) ==
  [total_videos |-> Cardinality(DOMAIN coll),
   collection_name |-> COLLECTION_NAME,
   persist_directory |-> VECTOR_DB_PATH,
   distance_metric |-> config]

\* The metrics config.py offers for DISTANCE_METRIC.
Metrics == {"cosine", "l2", "ip"}

\* A get-or-create that makes the collection anew when the requested metric
\* is not the stored one.
get_or_create_collection_recreating(coll, dim, sp, requested) ==
  IF sp = "none" \/ sp # requested
  THEN [collection |-> Empty, dimension |-> 0, space |-> requested]
  ELSE [collection |-> coll, dimension |-> dim, space |-> sp]

\* _get_or_create_collection: ChromaDB comes back with the collection of
\* that name as it is, and creates an empty one with the requested metric
\* only when there is none.
get_or_create_collection(coll, dim, sp, requested) ==
  IF sp = "none"
  THEN [collection |-> Empty, dimension |-> 0, space |-> requested]
  ELSE [collection |-> coll, dimension |-> dim, space |-> sp]

\* The searches asked: query embeddings, top_k values and filters.
QueryEmbeddings == {<<1, 0>>, <<1, 1>>, ShortEmbedding}
TopKs == (0 - 1)..MaxTopK
MinViews == {10, 15}
Filters == {NoFilter} \cup {MinViewsFilter(m) : m \in MinViews}

\* The embeddings argument: a 2-D array, so every row has one length.
EmbeddingRows(start, n, short) ==
  [i \in 1..n |-> IF short THEN ShortEmbedding ELSE PoolAt(start, i).embedding]

\* ----------------------------------------------------------- search service

QueryTexts == {"q1", "q2"}

\* self.model.encode(query): the embedding provider, a fixed function of
\* the text.
encode(query) == IF query = "q1" THEN <<1, 0>> ELSE <<1, 1>>

\* metadata.get(key, default)
DictGet(metadata, key, default) ==
  IF key \in DOMAIN metadata THEN metadata[key] ELSE default

\* 1 - distance: the cosine itself, kept as its signed square (the rounding
\* to four decimals is left out).
Similarity(distance) == [cos_num |-> distance.num, cos_den |-> distance.den]

\* --min-views: None, or an integer.
IntArg(m) == [int |-> m]
MinViewsArgs == {None} \cup {IntArg(m) : m \in MinViews}

\* main's filter: None without --min-views.
BuildFilter(min_views) ==
  IF min_views = None THEN NoFilter ELSE MinViewsFilter(min_views.int)

\* A search that numbers its results from 0.
search_zero_based(coll, dim, encode_raises, query, top_k, metadata_filter) ==
  IF encode_raises
  THEN {[status |-> "EmbeddingFailed", queried |-> FALSE]}
  ELSE
  {IF r.status # "ok"
   THEN [status |-> r.status, queried |-> TRUE]
   ELSE [status |-> "ok", queried |-> TRUE,
         results |->
           [i \in 1..Len(r.ids) |->
              [rank |-> i - 1,
               video_id |-> r.ids[i],
               title |-> DictGet(r.metadatas[i], "title", "N/A"),
               channel |-> DictGet(r.metadatas[i], "channel_title", "N/A"),
               views |-> DictGet(r.metadatas[i], "view_count", 0),
               duration |-> DictGet(r.metadatas[i], "duration_seconds", 0),
               similarity_score |-> Similarity(r.distances[i]),
               youtube_url |-> "https://youtu.be/" \o r.ids[i]]]] :
   r \in search_videos(coll, dim, encode(query), top_k, metadata_filter)}

\* A search that asks the store before it has the embedding.
search_store_first(coll, dim, encode_raises, query, top_k, metadata_filter) ==
  IF encode_raises
  THEN {[status |-> "EmbeddingFailed", queried |-> TRUE]}
  ELSE
  {IF r.status # "ok"
   THEN [status |-> r.status, queried |-> TRUE]
   ELSE [status |-> "ok", queried |-> TRUE,
         results |->
           [i \in 1..Len(r.ids) |->
              [rank |-> i,
               video_id |-> r.ids[i],
               title |-> DictGet(r.metadatas[i], "title", "N/A"),
               channel |-> DictGet(r.metadatas[i], "channel_title", "N/A"),
               views |-> DictGet(r.metadatas[i], "view_count", 0),
               duration |-> DictGet(r.metadatas[i], "duration_seconds", 0),
               similarity_score |-> Similarity(r.distances[i]),
               youtube_url |-> "https://youtu.be/" \o r.ids[i]]]] :
   r \in search_videos(coll, dim, encode(query), top_k, metadata_filter)}

\* VideoSemanticSearch.search: embed the query, search the store, and number
\* the results from 1; an exception of either step reaches the caller
\* (encode_raises: the embedding provider fails on the query; queried: the
\* store's search was called).
search(coll, dim, encode_raises, query, top_k, metadata_filter) ==
  IF encode_raises
  THEN {[status |-> "EmbeddingFailed", queried |-> FALSE]}
  ELSE
  {IF r.status # "ok"
   THEN [status |-> r.status, queried |-> TRUE]
   ELSE [status |-> "ok", queried |-> TRUE,
         results |->
           [i \in 1..Len(r.ids) |->
              [rank |-> i,
               video_id |-> r.ids[i],
               title |-> DictGet(r.metadatas[i], "title", "N/A"),
               channel |-> DictGet(r.metadatas[i], "channel_title", "N/A"),
               views |-> DictGet(r.metadatas[i], "view_count", 0),
               duration |-> DictGet(r.metadatas[i], "duration_seconds", 0),
               similarity_score |-> Similarity(r.distances[i]),
               youtube_url |-> "https://youtu.be/" \o r.ids[i]]]] :
   r \in search_videos(coll, dim, encode(query), top_k, metadata_filter)}

\* --------------------------------------------------------------- migration

\* CSV cells as pandas reads them: an empty cell (NaN), text, a number.
NaN == [kind |-> "nan"]
Str(x) == [kind |-> "str", value |-> x]
Num(x) == [kind |-> "num", value |-> x]

\* pd.notna
notna(cell) == cell.kind # "nan"

\* The text of an embeddings cell: a JSON array of numbers, a JSON array of
\* strings, or text that is no JSON.
JsonArray(v) == [kind |-> "json_array", value |-> v]
JsonStrings == [kind |-> "json_strings"]
Malformed == [kind |-> "malformed"]

\* An exception that leaves the function.
Raised(e) == [raised |-> e]

\* parse_embedding_string: the parsed array, or None when json.loads raises
\* JSONDecodeError (no JSON) or TypeError (an empty cell); np.array raises
\* ValueError on an array of strings, which no except clause names.
parse_embedding_string(embedding_str) ==
  IF embedding_str.kind = "json_array"
  THEN [array |-> embedding_str.value]
  ELSE IF embedding_str.kind = "json_strings"
  THEN Raised("ValueError")
  ELSE None

\* One CSV row made of a pool record.
Row(id, p, cell) ==
  [id |-> Str(id), embeddings |-> cell, transcript |-> Str(p.transcript),
   title |-> Str(p.metadata.title), channel_title |-> NaN,
   viewCount |-> IF "view_count" \in DOMAIN p.metadata
                 THEN Num(p.metadata.view_count) ELSE NaN,
   duration_seconds |-> NaN, publishedAt |-> NaN, likeCount |-> NaN,
   commentCount |-> NaN]

\* str(cell) or int(cell) if pd.notna(cell) else default
OrElse(cell, default) == IF notna(cell) THEN cell.value ELSE default

\* str(cell): the text of an empty cell is "nan".
StrOf(cell) == IF notna(cell) THEN cell.value ELSE "nan"

\* int(cell) raises ValueError on text that is no number.
IntRaises(cell) == cell.kind = "str"

\* The numeric columns of a row.
IntColumns == {"viewCount", "duration_seconds", "likeCount", "commentCount"}

\* The loop of prepare_data_for_db from row i on: a row whose embedding
\* parses to None is counted and left out, an exception ends the loop, and
\* every other row is appended to the four lists.
RECURSIVE prepare_from(_, _, _)
prepare_from(rows, i, acc) ==
  IF i > Len(rows) THEN acc
  ELSE LET row == rows[i]
           embedding == parse_embedding_string(row.embeddings)
       IN IF embedding = None
          THEN prepare_from(rows, i + 1,
                            [acc EXCEPT !.failed_count = acc.failed_count + 1])
          ELSE IF embedding = Raised("ValueError")
                  \/ \E c \in IntColumns : IntRaises(row[c])
          THEN [acc EXCEPT !.status = "ValueError"]
          ELSE prepare_from(rows, i + 1,
                 [acc EXCEPT
                    !.video_ids = Append(acc.video_ids, StrOf(row.id)),
                    !.transcripts = Append(acc.transcripts, OrElse(row.transcript, "")),
                    !.embeddings = Append(acc.embeddings, embedding.array),
                    !.metadata = Append(acc.metadata,
                       [title |-> OrElse(row.title, ""),
                        channel_title |-> OrElse(row.channel_title, ""),
                        view_count |-> OrElse(row.viewCount, 0),
                        duration_seconds |-> OrElse(row.duration_seconds, 0),
                        published_at |-> OrElse(row.publishedAt, ""),
                        like_count |-> OrElse(row.likeCount, 0),
                        comment_count |-> OrElse(row.commentCount, 0)])])

\* A preparation that keeps no count of the rows it drops.
prepare_data_for_db_uncounted(rows) ==
  [prepare_from(rows, 1, [status |-> "ok", video_ids |-> <<>>,
                          transcripts |-> <<>>, embeddings |-> <<>>,
                          metadata |-> <<>>, failed_count |-> 0])
     EXCEPT !.failed_count = 0]

\* prepare_data_for_db: the rows whose embedding parses, as four parallel
\* lists, and the number of rows dropped; np.array raises ValueError when
\* the embeddings kept have different lengths.
prepare_data_for_db(rows) ==
  LET d == prepare_from(rows, 1, [status |-> "ok", video_ids |-> <<>>,
                                  transcripts |-> <<>>, embeddings |-> <<>>,
                                  metadata |-> <<>>, failed_count |-> 0])
  IN IF d.status = "ok"
        /\ \E i, j \in DOMAIN d.embeddings :
             Len(d.embeddings[i]) # Len(d.embeddings[j])
     THEN [d EXCEPT !.status = "ValueError"]
     ELSE d

\* verify_migration: the collection's count against the expected one.
verify_migration(coll, expected_count) ==
  get_collection_stats(coll).total_videos = expected_count

\* main of migrate_to_vectordb: prepare the rows, stop when none is left,
\* open the collection, insert the rows in one call and verify; an
\* exception of any step ends the script.
main(coll, dim, sp, cfg, rows) ==
  LET d == prepare_data_for_db(rows)
      unopened == [collection |-> coll, dimension |-> dim, space |-> sp,
                   opened |-> FALSE, prepared |-> d]
  IN IF d.status # "ok"
     THEN [status |-> d.status] @@ unopened
     ELSE IF Len(d.video_ids) = 0
     THEN [status |-> "no_valid_data"] @@ unopened
     ELSE LET c == get_or_create_collection(coll, dim, sp, cfg)
              r == insert_videos(c.collection, c.dimension, d.video_ids,
                                 d.transcripts, d.embeddings, d.metadata)
              opened == [collection |-> r.collection, dimension |-> r.dimension,
                         space |-> c.space, opened |-> TRUE, prepared |-> d]
          IN IF r.status # "ok"
             THEN [status |-> r.status] @@ opened
             ELSE [status |-> "ok",
                   verification_passed |->
                     verify_migration(r.collection, Len(d.video_ids))] @@ opened

\* The CSV files migrated: one row for each id, every row with the cells of
\* the pool's first record, at most one of them with an embeddings cell that
\* does not parse.
BadCells == {Malformed, NaN}

CsvRows(ids, bad, cell) ==
  [i \in 1..Len(ids) |->
     Row(ids[i], Pool[1],
         IF i = bad THEN cell ELSE JsonArray(Pool[1].embedding))]

\* The rows of the CSV files prepared: two that are complete, and one for
\* each cell that can be missing or wrong.
CsvPool ==
  << Row("a", Pool[1], JsonArray(Pool[1].embedding)),
     Row("b", Pool[2], JsonArray(Pool[2].embedding)),
     [Row("c", Pool[3], JsonArray(Pool[3].embedding)) EXCEPT !.id = NaN],
     Row("c", Pool[3], Malformed),
     Row("c", Pool[3], NaN),
     Row("c", Pool[3], JsonStrings),
     [Row("c", Pool[3], JsonArray(Pool[3].embedding))
        EXCEPT !.viewCount = Str("n/a")],
     [Row("c", Pool[4], JsonArray(Pool[4].embedding))
        EXCEPT !.transcript = NaN, !.title = NaN],
     Row("c", Pool[1], JsonArray(ShortEmbedding)) >>

CsvLists ==
  UNION {[1..n -> Range(CsvPool)] : n \in 0..MaxCsvRows}

\* ------------------------------------------------- open, update and clear

\* An optional argument that is given.
Some(x) == [some |-> x]

\* The collection's embedding function: none is passed when the collection
\* is opened, so ChromaDB's default one, which embeds as the model does.
embedding_function(document) == encode(document)

\* collection.update of one id with the fields given: a field that is None
\* is kept, except that documents given without embeddings are embedded
\* anew by the collection's embedding function; the metadata keys given are
\* written over the stored ones, an id that is not stored is left out
\* without an error, and an embedding of another length than the
\* collection's dimension raises.
collection_update(coll, dim, id, transcript, embedding, metadata) ==
  LET embeddings == IF embedding # None THEN embedding
                    ELSE IF transcript # None
                    THEN Some(embedding_function(transcript.some))
                    ELSE None
  IN IF embeddings # None /\ dim # 0 /\ Len(embeddings.some) # dim
     THEN [status |-> "InvalidDimensionException", collection |-> coll,
           dimension |-> dim]
     ELSE [status |-> "ok",
           collection |->
             IF id \notin DOMAIN coll THEN coll
             ELSE [coll EXCEPT ![id] =
                     [transcript |-> IF transcript = None THEN @.transcript
                                     ELSE transcript.some,
                      embedding |-> IF embeddings = None THEN @.embedding
                                    ELSE embeddings.some,
                      metadata |->
                        IF metadata = None THEN @.metadata
                        ELSE LET old == coll[id].metadata
                                 new == metadata.some
                             IN [k \in DOMAIN old \cup DOMAIN new |->
                                   IF k \in DOMAIN new THEN new[k] ELSE old[k]]]],
           dimension |-> IF embeddings # None /\ dim = 0
                         THEN Len(embeddings.some) ELSE dim]

\* update_video: True when collection.update raised nothing, False when it
\* raised (raises: the store failed under the call).
update_video(coll, dim, raises, video_id, transcript, embedding, metadata) ==
  LET r == collection_update(coll, dim, video_id, transcript, embedding, metadata)
  IN IF raises \/ r.status # "ok"
     THEN [result |-> FALSE, collection |-> coll, dimension |-> dim]
     ELSE [result |-> TRUE, collection |-> r.collection,
           dimension |-> r.dimension]

\* clear_collection: delete the collection by name and open it again under
\* the configured metric. fail_at names the store call that raises: 1 the
\* delete_collection, 2 the get_or_create_collection after it, 0 none; with
\* no collection under the name delete_collection raises.
clear_collection(coll, dim, sp, h, cfg, fail_at) ==
  IF fail_at = 1 \/ sp = "none"
  THEN [result |-> FALSE, collection |-> coll, dimension |-> dim,
        space |-> sp, handle |-> h]
  ELSE IF fail_at = 2
  THEN [result |-> FALSE, collection |-> Empty, dimension |-> 0,
        space |-> "none", handle |-> "stale"]
  ELSE LET c == get_or_create_collection(Empty, 0, "none", cfg)
       IN [result |-> TRUE, collection |-> c.collection,
           dimension |-> c.dimension, space |-> c.space, handle |-> "valid"]

\* The except branches of get_video_by_id and delete_video.
get_video_by_id_except == None
delete_video_except(coll) == [result |-> FALSE, collection |-> coll]

\* A store call that raises when the store fails under it: the checks of
\* the arguments come first, and a failed call changes nothing.
store_call(raises, r, coll, dim) ==
  IF raises /\ r.status = "ok"
  THEN [status |-> "StoreError", collection |-> coll, dimension |-> dim]
  ELSE r

\* The records update_video is called with: the pool's first one.
UpdatePool == {Pool[1]}

\* ----------------------------------------------------------------- actions

Init ==
  /\ collection = Empty
  /\ dimension = 0
  /\ pc = "idle"
  /\ call = NoCall
  /\ ret = NoRet
  /\ before = NoBefore
  /\ space = DISTANCE_METRIC
  /\ handle = "valid"
  /\ config = DISTANCE_METRIC

Snapshot == [collection |-> collection, dimension |-> dimension, space |-> space]

\* The store raises under a call: it fails, or the handle's collection is
\* gone.
Raises(store_fails) == store_fails \/ handle = "stale"

\* VideoVectorDB(): a process opens the collection, asking for its
\* configured metric.
Open(requested) ==
  /\ pc = "idle"
  /\ LET c == get_or_create_collection(collection, dimension, space, requested)
     IN /\ collection' = c.collection
        /\ dimension' = c.dimension
        /\ space' = c.space
  /\ handle' = "valid"
  /\ config' = requested
  /\ call' = [op |-> "open", requested |-> requested]
  /\ ret' = [status |-> "ok"]
  /\ before' = Snapshot
  /\ pc' = "done"

OpenConfigured == Open(config)

InsertVideos ==
  /\ pc = "idle"
  /\ \E ids \in IdLists(MaxBatch), start \in 1..Len(Pool), short \in BOOLEAN,
        store_fails \in BOOLEAN :
       /\ (short \/ HasDuplicates(ids)) => start = 1
       /\ store_fails => (start = 1 /\ ~short)
       /\ LET n == Len(ids)
              transcripts == [i \in 1..n |-> PoolAt(start, i).transcript]
              embeddings == EmbeddingRows(start, n, short)
              metadata == [i \in 1..n |-> PoolAt(start, i).metadata]
              r == store_call(Raises(store_fails),
                              insert_videos(collection, dimension, ids,
                                            transcripts, embeddings, metadata),
                              collection, dimension)
          IN /\ collection' = r.collection
             /\ dimension' = r.dimension
             /\ call' = [op |-> "insert_videos", video_ids |-> ids,
                         transcripts |-> transcripts, embeddings |-> embeddings,
                         metadata |-> metadata, raises |-> Raises(store_fails)]
             /\ ret' = [status |-> r.status]
  /\ before' = Snapshot
  /\ pc' = "done"
  /\ UNCHANGED <<space, handle, config>>

GetVideoById ==
  /\ pc = "idle"
  /\ \E video_id \in Ids, store_fails \in BOOLEAN :
       /\ call' = [op |-> "get_video_by_id", video_id |-> video_id,
                   raises |-> Raises(store_fails)]
       /\ ret' = [status |-> "ok",
                  value |-> IF Raises(store_fails) THEN get_video_by_id_except
                            ELSE get_video_by_id(collection, video_id)]
  /\ before' = Snapshot
  /\ pc' = "done"
  /\ UNCHANGED <<collection, dimension, space, handle, config>>

UpdateWith(video_id, transcript, embedding, metadata, store_fails) ==
  /\ pc = "idle"
  /\ \E r \in {update_video(collection, dimension, Raises(store_fails),
                             video_id, transcript, embedding, metadata)} :
       /\ collection' = r.collection
       /\ dimension' = r.dimension
       /\ call' = [op |-> "update_video", video_id |-> video_id,
                   transcript |-> transcript, embedding |-> embedding,
                   metadata |-> metadata, raises |-> Raises(store_fails)]
       /\ ret' = [status |-> "ok", value |-> r.result]
  /\ before' = Snapshot
  /\ pc' = "done"
  /\ UNCHANGED <<space, handle, config>>

UpdateVideo ==
  \E video_id \in Ids, p \in UpdatePool, store_fails \in BOOLEAN :
    UpdateWith(video_id, Some(p.transcript), Some(p.embedding),
               Some(p.metadata), store_fails)

\* update_video with some of its fields left None.
UpdatePartial ==
  \E video_id \in Ids, p \in UpdatePool :
    \E transcript \in {None, Some(p.transcript)},
       embedding \in {None, Some(p.embedding), Some(ShortEmbedding)},
       metadata \in {None, Some(p.metadata)} :
      /\ ~(transcript = None /\ embedding = None /\ metadata = None)
      /\ UpdateWith(video_id, transcript, embedding, metadata, FALSE)

DeleteVideo ==
  /\ pc = "idle"
  /\ \E video_id \in Ids, store_fails \in BOOLEAN :
       LET r == IF Raises(store_fails) THEN delete_video_except(collection)
                ELSE delete_video(collection, video_id)
       IN /\ collection' = r.collection
          /\ call' = [op |-> "delete_video", video_id |-> video_id,
                      raises |-> Raises(store_fails)]
          /\ ret' = [status |-> "ok", value |-> r.result]
  /\ before' = Snapshot
  /\ pc' = "done"
  /\ UNCHANGED <<dimension, space, handle, config>>

ClearCollection ==
  /\ pc = "idle"
  /\ \E fail_at \in 0..2 :
       LET r == clear_collection(collection, dimension, space, handle, config,
                                 fail_at)
       IN /\ collection' = r.collection
          /\ dimension' = r.dimension
          /\ space' = r.space
          /\ handle' = r.handle
          /\ call' = [op |-> "clear_collection", fail_at |-> fail_at]
          /\ ret' = [status |-> "ok", value |-> r.result]
  /\ before' = Snapshot
  /\ pc' = "done"
  /\ UNCHANGED config

GetCollectionStats ==
  /\ pc = "idle"
  /\ \E store_fails \in BOOLEAN :
       /\ call' = [op |-> "get_collection_stats", raises |-> Raises(store_fails)]
       /\ ret' = IF Raises(store_fails) THEN [status |-> "StoreError"]
                 ELSE [status |-> "ok", value |-> get_collection_stats(collection)]
  /\ before' = Snapshot
  /\ pc' = "done"
  /\ UNCHANGED <<collection, dimension, space, handle, config>>

SearchVideos ==
  /\ pc = "idle"
  /\ \E q \in QueryEmbeddings, top_k \in TopKs, where \in Filters,
        store_fails \in BOOLEAN :
       /\ call' = [op |-> "search_videos", query_embedding |-> q,
                   top_k |-> top_k, metadata_filter |-> where,
                   raises |-> Raises(store_fails)]
       /\ ret' \in {IF Raises(store_fails) /\ r.status = "ok"
                    THEN [status |-> "StoreError"] ELSE r :
                    r \in search_videos(collection, dimension, q, top_k, where)}
  /\ before' = Snapshot
  /\ pc' = "done"
  /\ UNCHANGED <<collection, dimension, space, handle, config>>

Search ==
  /\ pc = "idle"
  /\ \E query \in QueryTexts, top_k \in TopKs, min_views \in MinViewsArgs,
        encode_raises \in BOOLEAN :
       \E r \in search(collection, dimension, encode_raises, query, top_k,
                       BuildFilter(min_views)) :
         /\ call' = [op |-> "search", query |-> query, top_k |-> top_k,
                     min_views |-> min_views,
                     metadata_filter |-> BuildFilter(min_views),
                     encode_raises |-> encode_raises,
                     raises |-> Raises(FALSE), store_queried |-> r.queried]
         /\ ret' = IF Raises(FALSE) /\ r.status = "ok"
                   THEN [status |-> "StoreError"]
                   ELSE [f \in DOMAIN r \ {"queried"} |-> r[f]]
  /\ before' = Snapshot
  /\ pc' = "done"
  /\ UNCHANGED <<collection, dimension, space, handle, config>>

\* migrate_to_vectordb's main on the rows of the CSV file: a process with a
\* handle of its own.
RunMain(rows) ==
  /\ pc = "idle"
  /\ \E r \in {main(collection, dimension, space, config, rows)} :
       /\ collection' = r.collection
       /\ dimension' = r.dimension
       /\ space' = r.space
       /\ handle' = IF r.opened THEN "valid" ELSE handle
       /\ call' = [op |-> "migrate", rows |-> rows, prepared |-> r.prepared]
       /\ ret' = [f \in DOMAIN r \ {"collection", "dimension", "space",
                                     "opened", "prepared"} |-> r[f]]
  /\ before' = Snapshot
  /\ pc' = "done"
  /\ UNCHANGED config

Migrate ==
  \E ids \in IdLists(MaxRows), bad \in 0..MaxRows, cell \in BadCells :
    /\ bad <= Len(ids)
    /\ bad = 0 => cell = Malformed
    /\ HasDuplicates(ids) => bad = 0
    /\ RunMain(CsvRows(ids, bad, cell))

MigrateCsv == \E rows \in CsvLists : RunMain(rows)

\* The call returns to its caller.
Return ==
  /\ pc = "done"
  /\ pc' = "idle"
  /\ call' = NoCall
  /\ ret' = NoRet
  /\ before' = NoBefore
  /\ UNCHANGED <<collection, dimension, space, handle, config>>

Next ==
  \/ OpenConfigured
  \/ InsertVideos
  \/ GetVideoById
  \/ UpdateVideo
  \/ DeleteVideo
  \/ ClearCollection
  \/ GetCollectionStats
  \/ SearchVideos
  \/ Search
  \/ Migrate
  \/ Return

Spec == Init /\ [][Next]_vars

\* Processes whose config.py names another metric than the one the
\* collection was created under: the collection may come from an earlier
\* configuration, and every start of a process asks for its own metric.
InitConfig ==
  /\ collection = Empty
  /\ dimension = 0
  /\ pc = "idle"
  /\ call = NoCall
  /\ ret = NoRet
  /\ before = NoBefore
  /\ space \in Metrics
  /\ handle = "valid"
  /\ config \in Metrics

Restart == \E requested \in Metrics : Open(requested)

NextConfig ==
  \/ Restart
  \/ Migrate
  \/ GetVideoById
  \/ DeleteVideo
  \/ ClearCollection
  \/ GetCollectionStats
  \/ Return

SpecConfig == InitConfig /\ [][NextConfig]_vars

\* Migrations of CSV files with missing and wrong cells.
\* main is killed inside insert_videos: the store holds the first k records
\* of the prepared batch, and nothing is verified or reported.
MigrateInterrupted ==
  /\ pc = "idle"
  /\ \E rows \in CsvLists :
       \E d \in {prepare_data_for_db(rows)} :
         /\ d.status = "ok"
         /\ Len(d.video_ids) > 0
         /\ \E k \in 0..(Len(d.video_ids) - 1) :
              \E c \in {get_or_create_collection(collection, dimension, space, config)} :
                \E r \in {IF k = 0
                          THEN [status |-> "ok", collection |-> c.collection,
                                dimension |-> c.dimension]
                          ELSE insert_videos(c.collection, c.dimension,
                                             SubSeq(d.video_ids, 1, k),
                                             SubSeq(d.transcripts, 1, k),
                                             SubSeq(d.embeddings, 1, k),
                                             SubSeq(d.metadata, 1, k))} :
                  /\ r.status = "ok"
                  /\ collection' = r.collection
                  /\ dimension' = r.dimension
                  /\ space' = c.space
                  /\ call' = [op |-> "migrate_interrupted", rows |-> rows,
                              prepared |-> d, stored |-> k]
         /\ ret' = [status |-> "killed"]
  /\ handle' = "valid"
  /\ before' = Snapshot
  /\ pc' = "done"
  /\ UNCHANGED config

NextMigrate ==
  \/ MigrateCsv
  \/ MigrateInterrupted
  \/ Return

SpecMigrate == Init /\ [][NextMigrate]_vars

\* Partial updates of a collection that one insert_videos has filled.
Seeds ==
  {insert_videos(Empty, 0, SubSeq(<<"a", "b">>, 1, n),
                 [i \in 1..n |-> PoolAt(start, i).transcript],
                 EmbeddingRows(start, n, FALSE),
                 [i \in 1..n |-> PoolAt(start, i).metadata]) :
     n \in 1..2, start \in 1..Len(Pool)}

InitUpdate ==
  /\ \E seed \in Seeds :
       /\ collection = seed.collection
       /\ dimension = seed.dimension
  /\ pc = "idle"
  /\ call = NoCall
  /\ ret = NoRet
  /\ before = NoBefore
  /\ space = DISTANCE_METRIC
  /\ handle = "valid"
  /\ config = DISTANCE_METRIC

NextUpdate ==
  \/ UpdatePartial
  \/ UpdateVideo
  \/ GetVideoById
  \/ Return

SpecUpdate == InitUpdate /\ [][NextUpdate]_vars

\* ------------------------------------------------------- duration parser

\* Text is a sequence of one-character strings.
DigitValue ==
  [c \in {"0", "1", "2", "3", "4", "5", "6", "7", "8", "9"} |->
     CASE c = "0" -> 0 [] c = "1" -> 1 [] c = "2" -> 2 [] c = "3" -> 3
       [] c = "4" -> 4 [] c = "5" -> 5 [] c = "6" -> 6 [] c = "7" -> 7
       [] c = "8" -> 8 [] c = "9" -> 9]

IsDigit(c) == c \in DOMAIN DigitValue

\* duration_str.replace('PT', ''): every occurrence, left to right.
RECURSIVE replace_PT_from(_, _)
replace_PT_from(s, i) ==
  IF i > Len(s) THEN <<>>
  ELSE IF i < Len(s) /\ s[i] = "P" /\ s[i + 1] = "T"
       THEN replace_PT_from(s, i + 2)
       ELSE <<s[i]>> \o replace_PT_from(s, i + 1)

replace_PT(s) == replace_PT_from(s, 1)

\* re.search(r'(\d+)X', s) followed by int(group(1)): the leftmost run of
\* digits that the letter follows, read as a decimal number; None without a
\* match.  run is the value of the digits read so far, in_run says that the
\* scan is inside a run of digits.
RECURSIVE re_search_from(_, _, _, _, _)
re_search_from(letter, s, i, run, in_run) ==
  IF i > Len(s) THEN None
  ELSE IF IsDigit(s[i])
       THEN re_search_from(letter, s, i + 1, run * 10 + DigitValue[s[i]], TRUE)
       ELSE IF in_run /\ s[i] = letter
            THEN [some |-> run]
            ELSE re_search_from(letter, s, i + 1, 0, FALSE)

re_search(letter, s) == re_search_from(letter, s, 1, 0, FALSE)

Component(letter, s) ==
  LET match == re_search(letter, s)
  IN IF letter \in Range(s) /\ match # None THEN match.some ELSE 0

parse_duration_to_seconds_minutes_unscaled(duration_str) ==
  IF ~notna(duration_str) \/ duration_str.kind # "str" THEN 0
  ELSE LET s == replace_PT(duration_str.value)
       IN Component("H", s) * 3600 + Component("M", s) + Component("S", s)

parse_duration_to_seconds(duration_str) ==
  IF ~notna(duration_str) \/ duration_str.kind # "str" THEN 0
  ELSE LET s == replace_PT(duration_str.value)
       IN Component("H", s) * 3600 + Component("M", s) * 60 + Component("S", s)

\* The decimal digits of a natural number, as the API writes a component.
RECURSIVE DecimalDigits(_)
DecimalDigits(n) ==
  LET last == CHOOSE c \in DOMAIN DigitValue : DigitValue[c] = n % 10
  IN IF n < 10 THEN <<last>> ELSE DecimalDigits(n \div 10) \o <<last>>

\* The components of the duration tokens asked: absent, or a number.
ComponentValues == {0, 1, 2, 3, 13, 27, 41, 56}
Components == {None} \cup {[some |-> n] : n \in ComponentValues}

ComponentText(c, letter) ==
  IF c = None THEN <<>> ELSE DecimalDigits(c.some) \o <<letter>>

\* PT[h H][m M][s S]
DurationToken(h, m, s) ==
  <<"P", "T">> \o ComponentText(h, "H") \o ComponentText(m, "M")
               \o ComponentText(s, "S")

\* Other text a duration cell can hold, up to MaxToken characters.
MaxToken == 4
TokenChars == {"P", "T", "H", "M", "S", "1"}
Texts == UNION {[1..n -> TokenChars] : n \in 0..MaxToken}

\* A cell that holds a number instead of text.
Seconds(n) == [kind |-> "num", number |-> n]

DurationCells ==
  {Str(DurationToken(h, m, s)) : h \in Components, m \in Components, s \in Components}
    \cup {Str(t) : t \in Texts}
    \cup {NaN, Seconds(0), Seconds(90)}

ParseDuration ==
  /\ pc = "idle"
  /\ \E duration_str \in DurationCells :
       /\ call' = [op |-> "parse_duration_to_seconds", duration_str |-> duration_str]
       /\ ret' = [status |-> "ok", value |-> parse_duration_to_seconds(duration_str)]
  /\ before' = Snapshot
  /\ pc' = "done"
  /\ UNCHANGED <<collection, dimension, space, handle, config>>

NextDuration ==
  \/ ParseDuration
  \/ Return

SpecDuration == Init /\ [][NextDuration]_vars

\* ------------------------------------------------- embedding text round trip

\* A float is counted in millionths: 125000 is 0.125.
Micro == 1000000

\* The step between neighbouring values of the narrower float type
\* (np.float32), which every embedding the encoder returns lies on.
Float32Step == 125000

Abs(x) == IF x < 0 THEN 0 - x ELSE x

RECURSIVE Pow10(_)
Pow10(n) == IF n = 0 THEN 1 ELSE 10 * Pow10(n - 1)

\* The digits after the point of a float's repr: six places without the
\* trailing zeros, at least one digit.
RECURSIVE FractionDigits(_, _)
FractionDigits(fraction, places) ==
  IF places = 1 \/ fraction % Pow10(places - 1) = 0
  THEN DecimalDigits(fraction \div Pow10(places - 1))
  ELSE FractionDigits(fraction, places - 1)

ZeroPadded(digits, places) ==
  [i \in 1..(places - Len(digits)) |-> "0"] \o digits

\* repr(float), as json.dumps writes a number of emb.tolist().
float_repr_two_places(x) ==
  LET whole == Abs(x) \div Micro
      fraction == (Abs(x) % Micro) \div Pow10(4)
      places == IF fraction % 10 = 0 THEN 1 ELSE 2
  IN (IF x < 0 THEN <<"-">> ELSE <<>>) \o DecimalDigits(whole) \o <<".">>
       \o ZeroPadded(FractionDigits(fraction, 2), places)

float_repr(x) ==
  LET whole == Abs(x) \div Micro
      fraction == Abs(x) % Micro
      digits == FractionDigits(fraction, 6)
      places == CHOOSE p \in 1..6 :
                  /\ fraction % Pow10(6 - p) = 0
                  /\ \A q \in 1..(p - 1) : fraction % Pow10(6 - q) # 0
  IN (IF x < 0 THEN <<"-">> ELSE <<>>) \o DecimalDigits(whole) \o <<".">>
       \o ZeroPadded(digits, places)

\* json.dumps of a list of floats: "[", the numbers joined by ", ", "]".
RECURSIVE json_dumps_from(_, _)
json_dumps_from(list, i) ==
  IF i > Len(list) THEN <<"]">>
  ELSE (IF i = 1 THEN <<>> ELSE <<",", " ">>) \o float_repr(list[i])
         \o json_dumps_from(list, i + 1)

json_dumps(list) == <<"[">> \o json_dumps_from(list, 1)

embeddings_to_string(embeddings) ==
  [i \in DOMAIN embeddings |-> json_dumps(embeddings[i])]

\* json.loads: a JSON array of numbers becomes the list of their values,
\* other text raises JSONDecodeError.
RECURSIVE SkipWs(_, _)
SkipWs(s, i) == IF i <= Len(s) /\ s[i] = " " THEN SkipWs(s, i + 1) ELSE i

RECURSIVE DigitsEnd(_, _)
DigitsEnd(s, i) == IF i <= Len(s) /\ IsDigit(s[i]) THEN DigitsEnd(s, i + 1) ELSE i

\* The number written by the digits s[i..j-1].
RECURSIVE DigitsValue(_, _, _)
DigitsValue(s, i, j) ==
  IF j <= i THEN 0 ELSE DigitsValue(s, i, j - 1) * 10 + DigitValue[s[j - 1]]

\* The millionths written by the digits s[i..j-1] after the point; digits
\* past the sixth place are below the float's step.
RECURSIVE FractionMicro(_, _, _, _)
FractionMicro(s, i, j, place) ==
  IF i >= j \/ place > 6 THEN 0
  ELSE DigitValue[s[i]] * Pow10(6 - place) + FractionMicro(s, i + 1, j, place + 1)

parse_float(s, i) ==
  LET negative == i <= Len(s) /\ s[i] = "-"
      a == IF negative THEN i + 1 ELSE i
      b == DigitsEnd(s, a)
      has_fraction == b <= Len(s) /\ s[b] = "."
      c == IF has_fraction THEN DigitsEnd(s, b + 1) ELSE b
      magnitude == DigitsValue(s, a, b) * Micro + FractionMicro(s, b + 1, c, 1)
  IN IF b = a \/ (b - a > 1 /\ s[a] = "0") \/ (has_fraction /\ c = b + 1)
     THEN [ok |-> FALSE]
     ELSE [ok |-> TRUE, value |-> IF negative THEN 0 - magnitude ELSE magnitude,
           next |-> c]

RECURSIVE json_loads_elements(_, _, _)
json_loads_elements(s, i, acc) ==
  LET number == parse_float(s, i)
  IN IF ~number.ok THEN Raised("JSONDecodeError")
     ELSE LET j == SkipWs(s, number.next)
              list == Append(acc, number.value)
          IN IF j > Len(s) THEN Raised("JSONDecodeError")
             ELSE IF s[j] = ","
                  THEN json_loads_elements(s, SkipWs(s, j + 1), list)
                  ELSE IF s[j] = "]" /\ SkipWs(s, j + 1) > Len(s)
                       THEN [value |-> list]
                       ELSE Raised("JSONDecodeError")

json_loads(s) ==
  LET i == SkipWs(s, 1)
      j == SkipWs(s, i + 1)
  IN IF i > Len(s) \/ s[i] # "[" THEN Raised("JSONDecodeError")
     ELSE IF j <= Len(s) /\ s[j] = "]"
          THEN IF SkipWs(s, j + 1) > Len(s) THEN [value |-> <<>>]
               ELSE Raised("JSONDecodeError")
          ELSE json_loads_elements(s, j, <<>>)

\* string_to_embeddings: np.array of the loaded lists; an exception of
\* json.loads leaves the function.
string_to_embeddings(embedding_strings) ==
  LET loaded == [i \in DOMAIN embedding_strings |-> json_loads(embedding_strings[i])]
  IN IF \E i \in DOMAIN loaded : "raised" \in DOMAIN loaded[i]
     THEN Raised("JSONDecodeError")
     ELSE [value |-> [i \in DOMAIN loaded |-> loaded[i].value]]

\* np.float32 of a float: the nearest value of the narrower type, ties to
\* the even neighbour.
float32(x) ==
  LET below == (Abs(x) \div Float32Step) * Float32Step
      rest == Abs(x) - below
      up == \/ 2 * rest > Float32Step
            \/ 2 * rest = Float32Step /\ (below \div Float32Step) % 2 = 1
      magnitude == IF up THEN below + Float32Step ELSE below
  IN IF x < 0 THEN 0 - magnitude ELSE magnitude

\* The embeddings cell that holds a text.
EmbeddingCell(text) ==
  LET loaded == json_loads(text)
  IN IF "raised" \in DOMAIN loaded THEN Malformed
     ELSE JsonArray([i \in DOMAIN loaded.value |-> float32(loaded.value[i])])

\* The embeddings asked: one or two vectors of at most MaxDim components,
\* every component an eighth between -1 and 1.
MaxDim == 2
FloatValues == {n * Float32Step : n \in (0 - 8)..8}
Vectors == UNION {[1..n -> FloatValues] : n \in 0..MaxDim}
Reversed(v) == [i \in DOMAIN v |-> v[Len(v) + 1 - i]]
EmbeddingArrays == {<<v>> : v \in Vectors} \cup {<<v, Reversed(v)>> : v \in Vectors}

\* The generator writes the embeddings as text, and the text is read back
\* both ways.
RoundTrip ==
  /\ pc = "idle"
  /\ \E embeddings \in EmbeddingArrays :
       \E strings \in {embeddings_to_string(embeddings)} :
         /\ call' = [op |-> "round_trip", embeddings |-> embeddings]
         /\ ret' = [status |-> "ok", strings |-> strings,
                    loaded |-> string_to_embeddings(strings),
                    parsed |-> [i \in DOMAIN strings |->
                                  parse_embedding_string(EmbeddingCell(strings[i]))]]
  /\ before' = Snapshot
  /\ pc' = "done"
  /\ UNCHANGED <<collection, dimension, space, handle, config>>

NextRoundTrip ==
  \/ RoundTrip
  \/ Return

SpecRoundTrip == Init /\ [][NextRoundTrip]_vars

\* ------------------------------------------------------ playlist pagination

\* A video of the uploads playlist: the transcript can be fetched ("T"), it
\* cannot ("N"), or the metadata lookup does not return the video ("X").
\* A page is written as the kinds of its videos.
PageKinds == {<<>>, <<"T">>, <<"N">>, <<"X">>, <<"T", "T">>, <<"N", "T">>}

MaxPages == 3
MaxTarget == 3

\* A playlist is a finite sequence of pages; a video's id is its place.
PageOf(p, kinds) == [i \in DOMAIN kinds |-> [id |-> <<p, i>>, kind |-> kinds[i]]]

Playlists ==
  UNION {{[p \in 1..n |-> PageOf(p, kinds[p])] : kinds \in [1..n -> PageKinds]} :
           n \in 1..MaxPages}

TargetCounts == 0..MaxTarget

\* youtube.playlistItems().list(pageToken=...).execute(): the page's items
\* and the token of the next page, None on the last page.
playlistItems_list(playlist, pageToken) ==
  LET p == IF pageToken = None THEN 1 ELSE pageToken.some
  IN [page |-> p, items |-> playlist[p],
      nextPageToken |-> IF p < Len(playlist) THEN [some |-> p + 1] ELSE None]

VideoIdsOf(items) == [i \in DOMAIN items |-> items[i].id]

Take(s, n) == SubSeq(s, 1, Min(Len(s), n))

\* get_video_ids starts: no id collected, no page token.
GetVideoIdsCall ==
  /\ pc = "idle"
  /\ \E playlist \in Playlists, target_count \in TargetCounts :
       call' = [op |-> "get_video_ids", playlist |-> playlist,
                target_count |-> target_count]
  /\ ret' = [status |-> "running", video_ids |-> <<>>, next_page_token |-> None,
             requested |-> {}, last |-> None]
  /\ before' = Snapshot
  /\ pc' = "loop"
  /\ UNCHANGED <<collection, dimension, space, handle, config>>

\* One pass of get_video_ids' loop: a token that stays where it is.
get_video_ids_pass_same_page(playlist, target_count, video_ids, next_page_token) ==
  LET res == playlistItems_list(playlist, next_page_token)
      collected == video_ids \o VideoIdsOf(res.items)
  IN IF Len(collected) >= target_count
     THEN [break |-> TRUE, video_ids |-> collected,
           next_page_token |-> next_page_token, res |-> res, page |-> res.page]
     ELSE [break |-> res.nextPageToken = None, video_ids |-> collected,
           next_page_token |-> IF res.items = <<>> THEN next_page_token
                               ELSE res.nextPageToken,
           res |-> res, page |-> res.page]

\* One pass of get_video_ids' loop.
get_video_ids_pass(playlist, target_count, video_ids, next_page_token) ==
  LET res == playlistItems_list(playlist, next_page_token)
      collected == video_ids \o VideoIdsOf(res.items)
  IN IF Len(collected) >= target_count
     THEN [break |-> TRUE, video_ids |-> collected,
           next_page_token |-> next_page_token, res |-> res, page |-> res.page]
     ELSE [break |-> res.nextPageToken = None, video_ids |-> collected,
           next_page_token |-> res.nextPageToken, res |-> res, page |-> res.page]

GetVideoIdsPass ==
  /\ pc = "loop"
  /\ call.op = "get_video_ids"
  /\ Len(ret.video_ids) < call.target_count
  /\ \E r \in {get_video_ids_pass(call.playlist, call.target_count,
                                  ret.video_ids, ret.next_page_token)} :
       /\ ret' = IF r.break
                 THEN [status |-> "ok", value |-> Take(r.video_ids, call.target_count),
                       requested |-> ret.requested \cup {r.page}, last |-> r.res]
                 ELSE [status |-> "running", video_ids |-> r.video_ids,
                       next_page_token |-> r.next_page_token,
                       requested |-> ret.requested \cup {r.page}, last |-> r.res]
       /\ pc' = IF r.break THEN "done" ELSE "loop"
  /\ UNCHANGED <<collection, dimension, space, handle, config, call, before>>

\* The loop's condition fails: the ids collected are cut and returned.
GetVideoIdsExit ==
  /\ pc = "loop"
  /\ call.op = "get_video_ids"
  /\ ~(Len(ret.video_ids) < call.target_count)
  /\ ret' = [status |-> "ok", value |-> Take(ret.video_ids, call.target_count),
             requested |-> ret.requested, last |-> ret.last]
  /\ pc' = "done"
  /\ UNCHANGED <<collection, dimension, space, handle, config, call, before>>

\* get_video_metadata: the rows of the videos the lookup returns.
get_video_metadata(items) == SelectSeq(items, LAMBDA v : v.kind # "X")

\* fetch_transcript: the transcript's text, or None.
fetch_transcript(video) == IF video.kind = "T" THEN [some |-> video.id] ELSE None

\* The loop over one batch's metadata, from its i-th video on.
RECURSIVE process_batch(_, _, _, _)
process_batch(batch_metadata, i, target_count, acc) ==
  IF i > Len(batch_metadata) THEN acc
  ELSE LET video == batch_metadata[i]
           transcript == fetch_transcript(video)
           fetched == Append(acc.fetched, video.id)
       IN IF transcript # None
          THEN LET successful == Append(acc.successful_videos, video.id)
               IN IF Len(successful) >= target_count
                  THEN [successful_videos |-> successful,
                        failed_videos |-> acc.failed_videos, fetched |-> fetched]
                  ELSE process_batch(batch_metadata, i + 1, target_count,
                                     [successful_videos |-> successful,
                                      failed_videos |-> acc.failed_videos,
                                      fetched |-> fetched])
          ELSE process_batch(batch_metadata, i + 1, target_count,
                             [successful_videos |-> acc.successful_videos,
                              failed_videos |-> Append(acc.failed_videos, video.id),
                              fetched |-> fetched])

\* One pass of fetch_videos_with_transcripts' loop.
fetch_videos_pass(playlist, target_count, locals) ==
  LET res == playlistItems_list(playlist, locals.next_page_token)
  IN IF res.items = <<>>
     THEN [break |-> TRUE, locals |-> locals, res |-> res, page |-> res.page]
     ELSE LET acc == process_batch(get_video_metadata(res.items), 1, target_count,
                                   [successful_videos |-> locals.successful_videos,
                                    failed_videos |-> locals.failed_videos,
                                    fetched |-> locals.fetched])
          IN [break |-> res.nextPageToken = None
                          /\ Len(acc.successful_videos) < target_count,
              locals |-> [successful_videos |-> acc.successful_videos,
                          failed_videos |-> acc.failed_videos,
                          fetched |-> acc.fetched,
                          next_page_token |-> res.nextPageToken],
              res |-> res, page |-> res.page]

FetchVideosCall ==
  /\ pc = "idle"
  /\ \E playlist \in Playlists, target_count \in TargetCounts :
       call' = [op |-> "fetch_videos_with_transcripts", playlist |-> playlist,
                target_count |-> target_count]
  /\ ret' = [status |-> "running",
             locals |-> [successful_videos |-> <<>>, failed_videos |-> <<>>,
                         fetched |-> <<>>, next_page_token |-> None],
             requested |-> {}, last |-> None]
  /\ before' = Snapshot
  /\ pc' = "loop"
  /\ UNCHANGED <<collection, dimension, space, handle, config>>

FetchVideosPass ==
  /\ pc = "loop"
  /\ call.op = "fetch_videos_with_transcripts"
  /\ Len(ret.locals.successful_videos) < call.target_count
  /\ \E r \in {fetch_videos_pass(call.playlist, call.target_count, ret.locals)} :
       /\ ret' = IF r.break
                 THEN [status |-> "ok", value |-> r.locals.successful_videos,
                       failed |-> r.locals.failed_videos,
                       fetched |-> r.locals.fetched,
                       requested |-> ret.requested \cup {r.page}, last |-> r.res]
                 ELSE [status |-> "running", locals |-> r.locals,
                       requested |-> ret.requested \cup {r.page}, last |-> r.res]
       /\ pc' = IF r.break THEN "done" ELSE "loop"
  /\ UNCHANGED <<collection, dimension, space, handle, config, call, before>>

FetchVideosExit ==
  /\ pc = "loop"
  /\ call.op = "fetch_videos_with_transcripts"
  /\ ~(Len(ret.locals.successful_videos) < call.target_count)
  /\ ret' = [status |-> "ok", value |-> ret.locals.successful_videos,
             failed |-> ret.locals.failed_videos,
             fetched |-> ret.locals.fetched,
             requested |-> ret.requested, last |-> ret.last]
  /\ pc' = "done"
  /\ UNCHANGED <<collection, dimension, space, handle, config, call, before>>

NextPagination ==
  \/ GetVideoIdsCall
  \/ GetVideoIdsPass
  \/ GetVideoIdsExit
  \/ FetchVideosCall
  \/ FetchVideosPass
  \/ FetchVideosExit
  \/ Return

\* Each function runs on: a pass or an exit that can be taken is taken.
SpecPagination ==
  /\ Init
  /\ [][NextPagination]_vars
  /\ WF_vars(GetVideoIdsPass)
  /\ WF_vars(GetVideoIdsExit)
  /\ WF_vars(FetchVideosPass)
  /\ WF_vars(FetchVideosExit)

\* ------------------------------------------------------- concurrent callers

\* Callers that share the store without a lock: each writer replaces the
\* record of the same id with update_video, one caller deletes it, and a
\* reader looks it up in between.
Writers == {"w1", "w2"}
SharedId == "a"
RecordOf(w) == IF w = "w1" THEN Pool[1] ELSE Pool[2]

\* The store applies a write to the documents and metadata first and to the
\* vector index afterwards; a record that is not stored is left alone.
write_metadata(coll, id, transcript, metadata) ==
  IF id \notin DOMAIN coll THEN coll
  ELSE [coll EXCEPT ![id] = [transcript |-> transcript,
                             embedding |-> coll[id].embedding,
                             metadata |-> metadata]]

write_vector(coll, id, embedding) ==
  IF id \notin DOMAIN coll THEN coll
  ELSE [coll EXCEPT ![id] = [transcript |-> coll[id].transcript,
                             embedding |-> embedding,
                             metadata |-> coll[id].metadata]]

\* One insert_videos has stored the shared id; no caller has started.
InitConcurrent ==
  /\ \E r \in {insert_videos(Empty, 0, <<SharedId>>, <<Pool[3].transcript>>,
                             <<Pool[3].embedding>>, <<Pool[3].metadata>>)} :
       /\ collection = r.collection
       /\ dimension = r.dimension
  /\ pc = [w \in Writers \cup {"deleter"} |-> "ready"]
  /\ call = NoCall
  /\ ret = NoRet
  /\ before = NoBefore
  /\ space = DISTANCE_METRIC
  /\ handle = "valid"
  /\ config = DISTANCE_METRIC

\* A writer's update_video reaches the documents and metadata.
UpdateMetadata(w) ==
  /\ pc[w] = "ready"
  /\ collection' = write_metadata(collection, SharedId, RecordOf(w).transcript,
                                  RecordOf(w).metadata)
  /\ pc' = [pc EXCEPT ![w] = "metadata_written"]
  /\ UNCHANGED <<dimension, call, ret, before, space, handle, config>>

\* The same update_video reaches the vector index, and returns.
UpdateVector(w) ==
  /\ pc[w] = "metadata_written"
  /\ collection' = write_vector(collection, SharedId, RecordOf(w).embedding)
  /\ pc' = [pc EXCEPT ![w] = "returned"]
  /\ UNCHANGED <<dimension, call, ret, before, space, handle, config>>

ConcurrentDelete ==
  /\ pc["deleter"] = "ready"
  /\ collection' = delete_video(collection, SharedId).collection
  /\ pc' = [pc EXCEPT !["deleter"] = "returned"]
  /\ UNCHANGED <<dimension, call, ret, before, space, handle, config>>

\* A reader's get_video_by_id at any moment.
ConcurrentGet ==
  /\ call' = [op |-> "get_video_by_id", video_id |-> SharedId]
  /\ ret' = [status |-> "ok", value |-> get_video_by_id(collection, SharedId)]
  /\ UNCHANGED <<collection, dimension, pc, before, space, handle, config>>

NextConcurrent ==
  \/ \E w \in Writers : UpdateMetadata(w)
  \/ \E w \in Writers : UpdateVector(w)
  \/ ConcurrentDelete
  \/ ConcurrentGet

SpecConcurrent == InitConcurrent /\ [][NextConcurrent]_vars

\* ------------------------------------------------------------------ claims

Done(op) == pc = "done" /\ call.op = op

\* The record a caller reads back for the batch's i-th entry.
Written(i) ==
  [id |-> call.video_ids[i], transcript |-> call.transcripts[i],
   embedding |-> call.embeddings[i], metadata |-> call.metadata[i]]

ExistingIndexes == {i \in DOMAIN call.video_ids : call.video_ids[i] \in DOMAIN before.collection}

\* Some embedding of the batch has another length than the collection's
\* dimension when the call started.
BatchMismatch ==
  /\ before.dimension # 0
  /\ \E i \in DOMAIN call.embeddings : Len(call.embeddings[i]) # before.dimension

\* C1: after insert_videos has accepted a batch, get_video_by_id of every id
\* of the batch that was already stored returns exactly the transcript,
\* embedding and metadata the batch wrote for it.
C1_InsertReplaces ==
  (Done("insert_videos") /\ ret.status = "ok") =>
    \A i \in ExistingIndexes :
      get_video_by_id(collection, call.video_ids[i]) = Written(i)

\* C2: an accepted batch of N records makes total_videos of
\* get_collection_stats grow by N minus the number of the batch's ids that
\* were already stored.
C2_CountGrowth ==
  (Done("insert_videos") /\ ret.status = "ok") =>
    get_collection_stats(collection).total_videos
      = get_collection_stats(before.collection).total_videos
          + Len(call.video_ids) - Cardinality(ExistingIndexes)

C2_Witness ==
  /\ Done("insert_videos")
  /\ ret.status = "ok"
  /\ ExistingIndexes # {}
  /\ ExistingIndexes # DOMAIN call.video_ids

C4_DuplicateIdRejected ==
  /\ (Done("insert_videos") /\ HasDuplicates(call.video_ids)) =>
       /\ ret.status = "DuplicateIDError"
       /\ collection = before.collection
  /\ (Done("migrate") /\ HasDuplicates(call.prepared.video_ids)) =>
       /\ ret.status = "DuplicateIDError"
       /\ collection = before.collection

C4_Witness ==
  /\ Done("insert_videos")
  /\ HasDuplicates(call.video_ids)
  /\ ~BatchMismatch
  /\ \E i \in DOMAIN call.video_ids :
       /\ call.video_ids[i] \notin DOMAIN before.collection
       /\ \A j \in DOMAIN call.video_ids : j # i => call.video_ids[j] # call.video_ids[i]
  /\ ret.status = "DuplicateIDError"

\* The ids a call writes.
WrittenIds ==
  IF call.op = "insert_videos" THEN Range(call.video_ids)
  ELSE IF call.op = "migrate" THEN Range(call.prepared.video_ids)
  ELSE {}

\* C5: delete_video(X) on a stored id X (the store carrying the deletion
\* out) leaves get_video_by_id(X) = None and the count one lower, and X
\* stays absent until a write of X.
C5_DeleteThenNotFound ==
  [][ /\ (pc = "idle" /\ call'.op = "delete_video" /\ ~call'.raises
            /\ call'.video_id \in DOMAIN collection) =>
           /\ get_video_by_id(collection', call'.video_id) = None
           /\ get_collection_stats(collection').total_videos
                = get_collection_stats(collection).total_videos - 1
      /\ \A x \in Ids :
           (get_video_by_id(collection, x) = None
              /\ get_video_by_id(collection', x) # None) =>
             (pc = "idle" /\ x \in WrittenIds') ]_vars

C5_Witness ==
  /\ Done("delete_video")
  /\ call.video_id \in DOMAIN before.collection
  /\ Cardinality(DOMAIN before.collection) > 1
  /\ ret.value = TRUE

\* C6: delete_video on an id that is not stored reports NotFound, a result
\* other than the True of a successful deletion, and leaves the collection
\* unchanged.
C6_DeleteMissingReported ==
  (Done("delete_video") /\ call.video_id \notin DOMAIN before.collection) =>
    /\ ret.status = "ok"
    /\ ret.value # TRUE
    /\ collection = before.collection

\* Result i of a search comes strictly before result j in the order
\* (distance, id).
OrderedPair(ids, distances, i, j) ==
  \/ DistLess(distances[i], distances[j])
  \/ /\ DistEq(distances[i], distances[j])
     /\ IdRank(ids[i]) < IdRank(ids[j])

\* C7: the results of search_videos are in non-decreasing order of distance,
\* and results of equal distance are in ascending order of id.
C7_SearchOrderDeterministic ==
  (Done("search_videos") /\ ret.status = "ok") =>
    \A i, j \in DOMAIN ret.ids : i < j => OrderedPair(ret.ids, ret.distances, i, j)

\* The stored records whose metadata passes a search's filter: all of them
\* without a filter, else those with a view_count of at least the bound.
Satisfying(where) ==
  {id \in DOMAIN before.collection :
     \/ where = NoFilter
     \/ /\ "view_count" \in DOMAIN before.collection[id].metadata
        /\ before.collection[id].metadata.view_count >= where.value}

QueryFits ==
  before.dimension = 0 \/ Len(call.query_embedding) = before.dimension

HasViews(id, m) ==
  /\ id \in DOMAIN collection
  /\ "view_count" \in DOMAIN collection[id].metadata
  /\ collection[id].metadata.view_count >= m

\* C9: a search with a metadata filter returns only records whose metadata
\* has the filtered key and passes the predicate, on the store and through
\* the search service with --min-views.
C9_FilterRespected ==
  /\ (Done("search_videos") /\ ret.status = "ok" /\ call.metadata_filter # NoFilter) =>
       \A i \in DOMAIN ret.ids :
         /\ HasViews(ret.ids[i], call.metadata_filter.value)
         /\ "view_count" \in DOMAIN ret.metadatas[i]
         /\ ret.metadatas[i].view_count >= call.metadata_filter.value
  /\ (Done("search") /\ ret.status = "ok" /\ call.min_views # None) =>
       \A i \in DOMAIN ret.results :
         /\ HasViews(ret.results[i].video_id, call.min_views.int)
         /\ ret.results[i].views >= call.min_views.int

C9_Witness ==
  /\ Done("search")
  /\ ret.status = "ok"
  /\ call.min_views # None
  /\ Len(ret.results) >= 1
  /\ \E o \in DOMAIN collection :
       /\ "view_count" \notin DOMAIN collection[o].metadata
       /\ \A i \in DOMAIN ret.results :
            DistLess(Distance(encode(call.query), collection[o].embedding),
                     Distance(encode(call.query),
                              collection[ret.results[i].video_id].embedding))

\* C10: a search with top_k <= 0 is rejected with an error, returns no
\* result list and leaves the collection unchanged, on the store and through
\* the search service (once the query is embedded).
C10_NonPositiveTopKRejected ==
  (/\ Done("search_videos") \/ (Done("search") /\ ~call.encode_raises)
   /\ call.top_k <= 0) =>
    /\ ret.status = "TypeError"
    /\ DOMAIN ret = {"status"}
    /\ collection = before.collection
    /\ dimension = before.dimension

C10_Witness ==
  /\ Done("search")
  /\ call.top_k <= 0
  /\ collection # Empty
  /\ ret.status = "TypeError"

\* C11: a clear_collection that returns True leaves the collection under its
\* name with the configuration it had (metric and dimension), with no record
\* (every id reads as None), and the handle valid for the calls that follow.
C11_ClearKeepsConfiguration ==
  (Done("clear_collection") /\ ret.value = TRUE) =>
    /\ space = before.space
    /\ dimension = before.dimension
    /\ collection = Empty
    /\ \A id \in Ids : get_video_by_id(collection, id) = None
    /\ handle = "valid"

\* C12: opening a name that exists creates nothing: the collection, its
\* records, its dimension and its metric are what they were, whatever metric
\* the open asks for, and the handle reads every record written before.
C12_OpenIdempotent ==
  (Done("open") /\ before.space # "none") =>
    /\ collection = before.collection
    /\ dimension = before.dimension
    /\ space = before.space
    /\ handle = "valid"
    /\ \A id \in DOMAIN before.collection :
         get_video_by_id(collection, id) = get_video_by_id(before.collection, id)

C12_Witness ==
  /\ Done("open")
  /\ before.space \notin {"none", call.requested}
  /\ Cardinality(DOMAIN before.collection) = 2
  /\ space = before.space

\* C13: get_collection_stats changes nothing of the collection, and its
\* total_videos is the number of ids that read back as stored, whatever
\* inserts, updates, deletes and clears came before.
C13_StatsReadOnlyExact ==
  (Done("get_collection_stats") /\ ret.status = "ok") =>
    /\ collection = before.collection
    /\ dimension = before.dimension
    /\ space = before.space
    /\ ret.value.total_videos
         = Cardinality({id \in Ids : get_video_by_id(collection, id) # None})

C13_Witness ==
  /\ Done("get_collection_stats")
  /\ ret.status = "ok"
  /\ ret.value.total_videos = 2
  /\ \E x, y \in DOMAIN collection :
       x # y /\ collection[x].transcript = collection[y].transcript

\* The store failed under the call that ran last.
StoreFailed ==
  IF call.op = "clear_collection" THEN call.fail_at # 0 ELSE call.raises

\* C14: a call of VideoVectorDB under which the store fails ends in an
\* error at its caller, never in a returned value.
C14_StoreFailurePropagates ==
  (/\ pc = "done"
   /\ call.op \in {"get_video_by_id", "update_video", "delete_video",
                   "clear_collection", "insert_videos", "search_videos"}
   /\ StoreFailed) =>
    ret.status # "ok"

\* The rows of the migration that ran last whose embeddings cell is a JSON
\* array of numbers, and those of them that have an id.
Parseable == {i \in DOMAIN call.rows : call.rows[i].embeddings.kind = "json_array"}
WithId == {i \in Parseable : notna(call.rows[i].id)}

\* The embeddings that parse have one length.
OneLength ==
  \A i, j \in Parseable :
    Len(call.rows[i].embeddings.value) = Len(call.rows[j].embeddings.value)

\* C15: a row with no id is skipped and counted as a failure: the rows
\* prepared are those with an id and an embedding that parses, every other
\* row is counted, and no id is prepared or stored that is not a row's id.
C15_MissingIdSkipped ==
  (Done("migrate") /\ call.prepared.status = "ok") =>
    /\ Len(call.prepared.video_ids) = Cardinality(WithId)
    /\ call.prepared.failed_count = Len(call.rows) - Cardinality(WithId)
    /\ Range(call.prepared.video_ids) \subseteq {call.rows[i].id.value : i \in WithId}
    /\ (DOMAIN collection \ DOMAIN before.collection)
         \subseteq {call.rows[i].id.value : i \in WithId}

\* C16: no embeddings cell aborts the preparation: with every other cell in
\* order, the rows whose cell is no array of numbers are dropped and
\* counted, and all the others are prepared.
C16_BadEmbeddingDropped ==
  (/\ Done("migrate")
   /\ OneLength
   /\ \A i \in DOMAIN call.rows :
        \A c \in IntColumns : ~IntRaises(call.rows[i][c])) =>
    /\ call.prepared.status = "ok"
    /\ Len(call.prepared.video_ids) = Cardinality(Parseable)
    /\ call.prepared.failed_count = Len(call.rows) - Cardinality(Parseable)

\* The default of a numeric and of a text cell.
NumberOrZero(cell) == IF cell.kind = "num" THEN cell.value ELSE 0
TextOrEmpty(cell) == IF cell.kind = "str" THEN cell.value ELSE ""

C18_CountsAddUp ==
  (Done("migrate") /\ call.prepared.status = "ok") =>
    /\ Len(call.prepared.video_ids) + call.prepared.failed_count = Len(call.rows)
    /\ Len(call.prepared.transcripts) = Len(call.prepared.video_ids)
    /\ Len(call.prepared.embeddings) = Len(call.prepared.video_ids)
    /\ Len(call.prepared.metadata) = Len(call.prepared.video_ids)
    /\ (ret.status = "ok" =>
          \A id \in Range(call.prepared.video_ids) : id \in DOMAIN collection)

C18_Witness ==
  /\ Done("migrate")
  /\ ret.status = "ok"
  /\ Len(call.rows) = 2
  /\ call.prepared.failed_count = 1
  /\ Len(call.prepared.video_ids) = 1

\* C19: the search service returns the store's records one for one and in
\* the store's order, the result at position i with rank i.
C19_RanksFollowStoreOrder ==
  (Done("search") /\ ret.status = "ok") =>
    \E r \in search_videos(before.collection, before.dimension,
                            encode(call.query), call.top_k, call.metadata_filter) :
      /\ r.status = "ok"
      /\ Len(ret.results) = Len(r.ids)
      /\ \A i \in DOMAIN ret.results :
           /\ ret.results[i].video_id = r.ids[i]
           /\ ret.results[i].similarity_score = Similarity(r.distances[i])
           /\ ret.results[i].rank = i

C19_Witness ==
  /\ Done("search")
  /\ ret.status = "ok"
  /\ Len(ret.results) = 3
  /\ IdRank(ret.results[1].video_id) > IdRank(ret.results[2].video_id)

\* C20: the store is asked only with the query's embedding at hand: when
\* the embedding fails the caller gets EmbeddingFailed, the store's search
\* is not called and the collection is as it was.
C20_EmbeddingFailureStopsSearch ==
  Done("search") =>
    /\ call.encode_raises =>
         /\ ret.status = "EmbeddingFailed"
         /\ ~call.store_queried
         /\ collection = before.collection
    /\ call.store_queried => ~call.encode_raises

C20_Witness ==
  /\ Done("search")
  /\ call.encode_raises
  /\ call.top_k >= 1
  /\ collection # Empty
  /\ ret.status = "EmbeddingFailed"

\* C26: update_video of an id that is not stored creates no record, leaves
\* the count as it was and returns False.
C26_UpdateMissingReturnsFalse ==
  (Done("update_video") /\ call.video_id \notin DOMAIN before.collection) =>
    /\ collection = before.collection
    /\ ret.value = FALSE

\* C28: the distance_metric of get_collection_stats is the metric the
\* collection ranks by, also when the collection was created under another
\* configured metric than the one of the process that asks.
C28_StatsMetricIsActual ==
  (Done("get_collection_stats") /\ ret.status = "ok") =>
    ret.value.distance_metric = space

\* C29: a clear_collection that returns False has changed nothing: every
\* record stored before is read back, and the handle refers to a collection
\* that exists.
C29_FailedClearChangesNothing ==
  (Done("clear_collection") /\ ret.value = FALSE /\ before.space # "none") =>
    /\ collection = before.collection
    /\ \A id \in DOMAIN before.collection :
         get_video_by_id(collection, id) = get_video_by_id(before.collection, id)
    /\ space = before.space
    /\ handle = "valid"

\* C27: update_video writes the fields it is given and nothing else: a
\* field passed as None keeps its stored value, the ids stored are the same,
\* and every other record is as it was.
C27_UpdateOnlyGivenFields ==
  Done("update_video") =>
    /\ DOMAIN collection = DOMAIN before.collection
    /\ \A id \in DOMAIN collection \ {call.video_id} :
         collection[id] = before.collection[id]
    /\ call.video_id \in DOMAIN collection =>
         LET new == collection[call.video_id]
             old == before.collection[call.video_id]
         IN /\ call.transcript = None => new.transcript = old.transcript
            /\ call.embedding = None => new.embedding = old.embedding
            /\ call.metadata = None => new.metadata = old.metadata

ComponentOrZero(c) == IF c = None THEN 0 ELSE c.some

\* The token of every choice of hours, minutes and seconds.
DurationTokens ==
  [c \in Components \X Components \X Components |-> DurationToken(c[1], c[2], c[3])]

\* C24: parse_duration_to_seconds maps a token PT[h H][m M][s S] to
\* h*3600 + m*60 + s with every absent component taken as 0 (PT13M27S is 807,
\* PT1H3M56S is 3836, PT2M41S is 161), returns 0 for a missing or non-string
\* input, and returns a non-negative integer for every input.
C24_DurationSeconds ==
  Done("parse_duration_to_seconds") =>
    /\ ret.value \in Nat
    /\ call.duration_str.kind # "str" => ret.value = 0
    /\ \A c \in DOMAIN DurationTokens :
         call.duration_str = Str(DurationTokens[c]) =>
           ret.value = ComponentOrZero(c[1]) * 3600 + ComponentOrZero(c[2]) * 60
                         + ComponentOrZero(c[3])
    /\ call.duration_str = Str(<<"P", "T", "1", "3", "M", "2", "7", "S">>) =>
         ret.value = 807
    /\ call.duration_str = Str(<<"P", "T", "1", "H", "3", "M", "5", "6", "S">>) =>
         ret.value = 3836
    /\ call.duration_str = Str(<<"P", "T", "2", "M", "4", "1", "S">>) =>
         ret.value = 161

C24_Witness ==
  /\ Done("parse_duration_to_seconds")
  /\ call.duration_str = Str(DurationToken([some |-> 1], [some |-> 3], [some |-> 56]))
  /\ ret.value = 3836

\* Two vectors have the same length and every component within 1e-6.
Tolerance == Micro \div 1000000
Close(x, y) ==
  /\ Len(x) = Len(y)
  /\ \A k \in DOMAIN x : Abs(x[k] - y[k]) <= Tolerance

\* C23: an embedding written by embeddings_to_string and read back by
\* string_to_embeddings or by parse_embedding_string is a vector of the same
\* length with every component within 1e-6 of the original.
C23_RoundTrip ==
  Done("round_trip") =>
    /\ "value" \in DOMAIN ret.loaded
    /\ Len(ret.loaded.value) = Len(call.embeddings)
    /\ \A i \in DOMAIN call.embeddings :
         /\ Close(call.embeddings[i], ret.loaded.value[i])
         /\ "array" \in DOMAIN ret.parsed[i]
         /\ Close(call.embeddings[i], ret.parsed[i].array)

C23_Witness ==
  /\ Done("round_trip")
  /\ call.embeddings = <<<<125000, 0 - 1000000>>, <<0 - 1000000, 125000>>>>
  /\ ret.strings[1] = <<"[", "0", ".", "1", "2", "5", ",", " ", "-", "1", ".", "0", "]">>
  /\ ret.loaded.value = call.embeddings

\* The videos of a playlist's pages 1..p, in playlist order.
RECURSIVE Flatten(_, _)
Flatten(playlist, p) ==
  IF p = 0 THEN <<>> ELSE Flatten(playlist, p - 1) \o playlist[p]

AllVideos(playlist) == Flatten(playlist, Len(playlist))

HasTranscript(video) == video.kind = "T"

\* The ids of the videos with a transcript on a playlist's pages 1..p.
WithTranscript(playlist, p) == VideoIdsOf(SelectSeq(Flatten(playlist, p), HasTranscript))

\* The fetches of transcripts that succeeded among the first k.
Successes(fetched, playlist, k) ==
  Cardinality({j \in 1..k : \E v \in Range(AllVideos(playlist)) :
                 v.id = fetched[j] /\ HasTranscript(v)})

\* C25: fetch_videos_with_transcripts returns the first target_count videos
\* with a transcript when the channel has that many and all of them
\* otherwise, never more than target_count, and fetches no transcript once
\* the target is reached.
C25_StopsAtTarget ==
  Done("fetch_videos_with_transcripts") =>
    /\ ret.value = Take(WithTranscript(call.playlist, Len(call.playlist)),
                        call.target_count)
    /\ Len(ret.value) <= call.target_count
    /\ \A k \in 1..(Len(ret.fetched) - 1) :
         Successes(ret.fetched, call.playlist, k) < call.target_count

\* The page at which get_video_ids has to stop: the first one with which the
\* ids collected reach the target, or the last page.
StopPageOfIds(playlist, target_count) ==
  CHOOSE p \in 1..Len(playlist) :
    /\ Len(Flatten(playlist, p)) >= target_count \/ p = Len(playlist)
    /\ \A q \in 1..(p - 1) : Len(Flatten(playlist, q)) < target_count

\* The page at which fetch_videos_with_transcripts has to stop: the first one
\* with which the transcripts reach the target, or without items, or the
\* last page.
Stops(playlist, target_count, p) ==
  \/ Len(WithTranscript(playlist, p)) >= target_count
  \/ playlist[p] = <<>>
  \/ p = Len(playlist)

StopPageOfFetch(playlist, target_count) ==
  CHOOSE p \in 1..Len(playlist) :
    /\ Stops(playlist, target_count, p)
    /\ \A q \in 1..(p - 1) : ~Stops(playlist, target_count, q)

\* A loop has ended for one of its reasons.
EndedFor(count) ==
  \/ count >= call.target_count
  \/ /\ ret.last # None
     /\ ret.last.items = <<>> \/ ret.last.nextPageToken = None

C30_LoopsEndInOrder ==
  /\ Done("get_video_ids") =>
       /\ EndedFor(Len(ret.value))
       /\ ret.requested = IF call.target_count = 0 THEN {}
                          ELSE 1..StopPageOfIds(call.playlist, call.target_count)
       /\ ret.value = Take(VideoIdsOf(AllVideos(call.playlist)), call.target_count)
       /\ Len(ret.value) = Min(call.target_count, Len(AllVideos(call.playlist)))
  /\ Done("fetch_videos_with_transcripts") =>
       /\ EndedFor(Len(ret.value))
       /\ ret.requested = IF call.target_count = 0 THEN {}
                          ELSE 1..StopPageOfFetch(call.playlist, call.target_count)

StoredPrefix(run, k) ==
  [id \in Range(SubSeq(run.prepared.video_ids, 1, k)) |-> run.collection[id]]

\* The migration of the same rows into an empty store succeeds.
SingleRun == main(Empty, 0, DISTANCE_METRIC, config, call.rows)

SingleRunSucceeds ==
  /\ SingleRun.status = "ok"
  /\ SingleRun.verification_passed

\* C22: a migration of rows of which an earlier run, complete or interrupted,
\* has already stored the first k records ends with exactly one record for
\* every prepared id, in the state a single complete run leaves, and passes
\* its verification.
C22_RerunIsSafe ==
  (/\ Done("migrate")
   /\ SingleRunSucceeds
   /\ \E k \in 0..Len(SingleRun.prepared.video_ids) :
        before.collection = StoredPrefix(SingleRun, k)) =>
    /\ ret.status = "ok"
    /\ ret.verification_passed
    /\ DOMAIN collection = Range(call.prepared.video_ids)
    /\ collection = SingleRun.collection
    /\ dimension = SingleRun.dimension

C22_Witness ==
  /\ Done("migrate")
  /\ SingleRunSucceeds
  /\ Len(call.prepared.video_ids) = 2
  /\ before.collection = StoredPrefix(SingleRun, 1)
  /\ ret.status = "ok"
  /\ ret.verification_passed
  /\ collection = SingleRun.collection

Whole(p) ==
  [id |-> SharedId, transcript |-> p.transcript, embedding |-> p.embedding,
   metadata |-> p.metadata]

\* The records written whole: each writer's, and with the inserted one.
WriterRecords == {Whole(RecordOf(w)) : w \in Writers}
WholeRecords == WriterRecords \cup {Whole(Pool[3])}

\* C21: with concurrent writers and a deleter of one id, every record that
\* get_video_by_id returns is the record of one write, and once all callers
\* have returned the id is absent or holds exactly one writer's record.
C21_WritesAreSerialized ==
  /\ (ret.status = "ok" /\ ret.value # None) => ret.value \in WholeRecords
  /\ (\A w \in DOMAIN pc : pc[w] = "returned") =>
       \/ get_video_by_id(collection, SharedId) = None
       \/ get_video_by_id(collection, SharedId) \in WriterRecords

====
